---- MODULE Spec2Model ----
(***************************************************************************)
(* Model of moshi_mlx/local.py: the two processes started by main()        *)
(* (model_server, the inference engine, and web_server, the audio          *)
(* gateway), the two multiprocessing queues between them, the gateway's    *)
(* start-up (the "start" sentinel and full_warmup), its four global        *)
(* bridge coroutines, and handle_chat with its four per-connection         *)
(* coroutines under the asyncio lock.                                      *)
(*                                                                         *)
(* Granularity.  The gateway runs one asyncio loop: a coroutine runs       *)
(* without interruption from one await to the next, so an action of a      *)
(* coroutine is the code between two awaits.  The engine is another        *)
(* process and interleaves freely.  The codecs (rustymimi, sphn) are       *)
(* external: they are modelled as FIFO buffers whose "not ready yet"       *)
(* answer is the action not being taken yet.                                *)
(*                                                                         *)
(* Provenance.  PCM is a range [lo, hi) of sample indices of its source    *)
(* (src = 0 for the warmup, src = c for connection c); a token frame is    *)
(* the index n of the 1920-sample frame it encodes; Opus bytes carry the   *)
(* pair in one byte.  The codecs keep provenance, nothing else is assumed. *)
(***************************************************************************)
EXTENDS Integers, Sequences, FiniteSets, TLC

\* ---- program constants -------------------------------------------------
FRAME_SIZE == 1920
WarmupIters == 4

\* ---- bounds -------------------------------------------------------------
\* number of data messages the clients send, all connections together
MaxMsgs == 2

Conns == {1, 2}
Tasks == {"opus_loop", "recv_loop", "send_loop", "another_loop"}

\* lengths read_pcm may return for a non-empty Opus payload
PcmLens == {1000, 3000}
\* Opus payloads a client puts behind the kind byte
Payloads == {<<>>, <<1, 0>>}

NoMsg == [type |-> "NONE", data |-> <<>>]

VARIABLES
  client_to_server,   \* multiprocessing.Queue gateway -> engine
  server_to_client,   \* multiprocessing.Queue engine -> gateway
  input_queue,        \* queue.Queue of 1920-sample PCM (PCM-in)
  output_queue,       \* queue.Queue of decoded PCM (PCM-out)
  audio_tokenizer,    \* rustymimi.StreamTokenizer: [enc, dec] ready results
  mpc,                \* model_server: "init" | "loop"
  wpc,                \* web_server: "start" | "put" | "get" | "serve"
  warm,               \* full_warmup: [i, puts, gets]
  lock,               \* asyncio.Lock: [locked, waiters]
  hpc,                \* handle_chat per connection
  tpc,                \* per connection, per task: position
  close,              \* handle_chat's closed flag
  ws,                 \* the connection: "open" | "gone"
  nmsg,               \* data messages received so far, all connections
  message,            \* recv_loop's local `message`: the last one received
  opus_reader,        \* sphn.OpusStreamReader: [fed, out]
  all_pcm_data,       \* opus_loop's buffer: [lo, hi]
  pushed,             \* frames opus_loop has put on input_queue
  opus_writer,        \* sphn.OpusStreamWriter: PCM appended, not yet read
  sent,               \* frames delivered by ws.send_bytes
  dropped,            \* messages recv_loop has logged and dropped
  data,               \* model_server's local `data`: the frame last taken
  audio_tokens,       \* the frame last handed to audio_tokenizer.decode
  sup,                \* main(): "watch" (is_alive loop) | "join1" (in
                      \* p1.join()) | "join2" (in p2.join()) | "done"
  eng                 \* model_server's last step as its log shows it:
                      \* text_token, whether it was logged, and the
                      \* steps made and frames put so far

vars == <<client_to_server, server_to_client, input_queue, output_queue,
          audio_tokenizer, mpc, wpc, warm, lock, hpc, tpc, close, ws, nmsg,
          message, opus_reader, all_pcm_data, pushed, opus_writer, sent,
          dropped, data, audio_tokens, sup, eng>>

chanVars == <<client_to_server, server_to_client, data, audio_tokens>>
gateVars == <<input_queue, output_queue, audio_tokenizer>>
procVars == <<mpc, wpc, warm>>
connVars == <<lock, hpc, tpc, close, ws, nmsg, message, opus_reader,
              all_pcm_data, pushed, opus_writer, sent, dropped>>

\* ---- external codecs and the engine's generator, by provenance ---------
\* a PCM array: a sequence of segments, each the samples [lo, hi) of src
Pcm(src, lo, hi) == <<[src |-> src, lo |-> lo, hi |-> hi]>>

RECURSIVE PcmLen(_)
PcmLen(pcm) ==
  IF pcm = <<>> THEN 0 ELSE (Head(pcm).hi - Head(pcm).lo) + PcmLen(Tail(pcm))
StartMsg == [kind |-> "start", src |-> 0, n |-> 0]
NoFrame == [kind |-> "none", src |-> 0, n |-> 0]

\* audio_tokenizer.encode / get_encoded: the token frame of one PCM frame
Encode(pcm) ==
  [kind |-> "tok", src |-> pcm[1].src, n |-> pcm[1].lo \div FRAME_SIZE]
\* gen.step / gen.last_audio_tokens: the frame generated for one input
Generate(tok) == [kind |-> "gen", src |-> tok.src, n |-> tok.n]
\* audio_tokenizer.decode / get_decoded: 1920 samples per generated frame
Decode(gen) == Pcm(gen.src, gen.n * FRAME_SIZE, (gen.n + 1) * FRAME_SIZE)
\* opus_writer.append_pcm / read_bytes: the Opus bytes of one PCM frame
OpusBytes(pcm) == <<16 * pcm[1].src + (pcm[1].lo \div FRAME_SIZE)>>

RECURSIVE OpusChunk(_)
OpusChunk(pcms) ==
  IF pcms = <<>> THEN <<>> ELSE OpusBytes(Head(pcms)) \o OpusChunk(Tail(pcms))

\* a queue that hands out its newest element first
QGetLast(q) == [item |-> q[Len(q)], rest |-> SubSeq(q, 1, Len(q) - 1)]

\* queue.get: the element taken and what is left
QGet(q) == [item |-> Head(q), rest |-> Tail(q)]
\* queue.put / put_nowait
QPut(q, x) == Append(q, x)

\* ---- model_server (the Inference Engine) --------------------------------
\* server_to_client.put("start")
ModelServerStart ==
  /\ mpc = "init"
  /\ server_to_client' = QPut(server_to_client, StartMsg)
  /\ mpc' = "loop"
  /\ UNCHANGED <<client_to_server, data, audio_tokens, wpc, warm>>
  /\ UNCHANGED <<gateVars, connVars>>
  /\ UNCHANGED <<sup, eng>>

\* the text tokens gen.step can return: the two the loop does not log,
\* and one standing for every other token
TextTokens == {0, 3, 5}

\* `if text_token not in (0, 3)`: the token is turned into text and logged
LogsNonZero(text_token) == text_token # 0
Logs(text_token) == text_token \notin {0, 3}

\* what one step adds to the engine's record; the record is kept only in
\* the runs that look at it (eng.on), it is never read by the program
Record(text_token, emit) ==
  IF eng.on
    THEN [eng EXCEPT !.steps = @ + 1,
                     !.emitted = @ + (IF emit THEN 1 ELSE 0),
                     !.text_token = text_token,
                     !.logged = Logs(text_token)]
    ELSE eng

\* one iteration of the while loop: blocking get, gen.step, optional put
ModelServerStep ==
  /\ mpc = "loop"
  /\ client_to_server # <<>>
  /\ LET g == QGet(client_to_server) IN
       /\ client_to_server' = g.rest
       /\ data' = g.item
       /\ \E emit \in BOOLEAN, text_token \in TextTokens :
            /\ IF emit
                 THEN server_to_client' =
                        QPut(server_to_client, Generate(g.item))
                 ELSE UNCHANGED server_to_client
            /\ eng' = Record(text_token, emit)
  /\ UNCHANGED <<audio_tokens, procVars, gateVars, connVars>>
  /\ UNCHANGED sup

\* gen.step raises: nothing in the loop catches it (only KeyboardInterrupt
\* is caught), so the process ends with the frame it took
ModelServerDie ==
  /\ mpc = "loop"
  /\ client_to_server # <<>>
  /\ LET g == QGet(client_to_server) IN
       /\ client_to_server' = g.rest
       /\ data' = g.item
  /\ mpc' = "dead"
  /\ UNCHANGED <<server_to_client, audio_tokens, wpc, warm, sup, eng>>
  /\ UNCHANGED <<gateVars, connVars>>

\* ---- main (the supervisor) ----------------------------------------------
\* p.is_alive()
IsAlive(pc) == pc # "dead"

\* `while p1.is_alive() and p2.is_alive()` finds one of them gone
MainLoopExit ==
  /\ sup = "watch"
  /\ ~(IsAlive(wpc) /\ IsAlive(mpc))
  /\ sup' = "join1"
  /\ UNCHANGED <<chanVars, gateVars, procVars, connVars, eng>>

\* KeyboardInterrupt in the loop: p1.terminate(); p2.terminate()
MainInterrupt ==
  /\ sup = "watch"
  /\ wpc' = "dead"
  /\ mpc' = "dead"
  /\ sup' = "join1"
  /\ UNCHANGED <<chanVars, gateVars, warm, connVars, eng>>

\* p1.join() returns once the gateway process has ended
MainJoinP1 ==
  /\ sup = "join1"
  /\ ~IsAlive(wpc)
  /\ sup' = "join2"
  /\ UNCHANGED <<chanVars, gateVars, procVars, connVars, eng>>

\* p2.join() returns once the engine process has ended; "All done!"
MainJoinP2 ==
  /\ sup = "join2"
  /\ ~IsAlive(mpc)
  /\ sup' = "done"
  /\ UNCHANGED <<chanVars, gateVars, procVars, connVars, eng>>

\* ---- web_server start-up -------------------------------------------------
\* a gateway that goes to full_warmup without taking the sentinel
WebServerStartNoGet ==
  /\ wpc = "start"
  /\ wpc' = "put"
  /\ UNCHANGED <<client_to_server, server_to_client, data, audio_tokens, mpc,
                 warm>>
  /\ UNCHANGED <<gateVars, connVars>>
  /\ UNCHANGED <<sup, eng>>

\* start = server_to_client.get()
WebServerStart ==
  /\ wpc = "start"
  /\ server_to_client # <<>>
  /\ server_to_client' = QGet(server_to_client).rest
  /\ wpc' = "put"
  /\ UNCHANGED <<client_to_server, data, audio_tokens, mpc, warm>>
  /\ UNCHANGED <<gateVars, connVars>>
  /\ UNCHANGED <<sup, eng>>

\* a warmup whose first iteration also waits for a generated frame
WarmupPutNoContinue ==
  /\ wpc = "put"
  /\ LET pcm == Pcm(0, warm.i * FRAME_SIZE, (warm.i + 1) * FRAME_SIZE)
         enc == Append(audio_tokenizer.enc, Encode(pcm))
         tok == Head(enc)
     IN /\ audio_tokenizer' = [audio_tokenizer EXCEPT !.enc = Tail(enc)]
        /\ client_to_server' = QPut(client_to_server, tok)
  /\ warm' = [warm EXCEPT !.puts = @ + 1]
  /\ wpc' = "get"
  /\ UNCHANGED <<server_to_client, data, audio_tokens, mpc>>
  /\ UNCHANGED <<input_queue, output_queue, connVars>>
  /\ UNCHANGED <<sup, eng>>

\* full_warmup, first half of an iteration: encode zeros, poll get_encoded,
\* client_to_server.put_nowait; `continue` when i = 0
WarmupPut ==
  /\ wpc = "put"
  /\ LET pcm == Pcm(0, warm.i * FRAME_SIZE, (warm.i + 1) * FRAME_SIZE)
         enc == Append(audio_tokenizer.enc, Encode(pcm))
         tok == Head(enc)
     IN /\ audio_tokenizer' = [audio_tokenizer EXCEPT !.enc = Tail(enc)]
        /\ client_to_server' = QPut(client_to_server, tok)
  /\ IF warm.i = 0
       THEN /\ warm' = [warm EXCEPT !.i = 1, !.puts = @ + 1]
            /\ wpc' = "put"
       ELSE /\ warm' = [warm EXCEPT !.puts = @ + 1]
            /\ wpc' = "get"
  /\ UNCHANGED <<server_to_client, data, audio_tokens, mpc>>
  /\ UNCHANGED <<input_queue, output_queue, connVars>>
  /\ UNCHANGED <<sup, eng>>

\* full_warmup, second half: blocking server_to_client.get(), decode, poll
\* get_decoded; the loop ends after the fourth iteration
WarmupGet ==
  /\ wpc = "get"
  /\ server_to_client # <<>>
  /\ LET g == QGet(server_to_client)
         dec == Append(audio_tokenizer.dec, Decode(g.item))
     IN /\ server_to_client' = g.rest
        /\ audio_tokens' = g.item
        /\ audio_tokenizer' = [audio_tokenizer EXCEPT !.dec = Tail(dec)]
  /\ warm' = [warm EXCEPT !.i = @ + 1, !.gets = @ + 1]
  /\ wpc' = IF warm.i + 1 < WarmupIters THEN "put" ELSE "serve"
  /\ UNCHANGED <<client_to_server, data, mpc>>
  /\ UNCHANGED <<input_queue, output_queue, connVars>>
  /\ UNCHANGED <<sup, eng>>

\* ---- the four global bridge coroutines of web_server --------------------
\* send_loop: input_queue.get(block=False); audio_tokenizer.encode
SendLoop ==
  /\ wpc = "serve"
  /\ input_queue # <<>>
  /\ LET g == QGet(input_queue) IN
       /\ input_queue' = g.rest
       /\ audio_tokenizer' =
            [audio_tokenizer EXCEPT !.enc = Append(@, Encode(g.item))]
  /\ UNCHANGED <<output_queue, chanVars, procVars, connVars>>
  /\ UNCHANGED <<sup, eng>>

\* recv_loop: audio_tokenizer.get_decoded; output_queue.put_nowait
RecvLoop ==
  /\ wpc = "serve"
  /\ audio_tokenizer.dec # <<>>
  /\ output_queue' = QPut(output_queue, Head(audio_tokenizer.dec))
  /\ audio_tokenizer' = [audio_tokenizer EXCEPT !.dec = Tail(@)]
  /\ UNCHANGED <<input_queue, chanVars, procVars, connVars>>
  /\ UNCHANGED <<sup, eng>>

\* send_loop2: audio_tokenizer.get_encoded; client_to_server.put_nowait
SendLoop2 ==
  /\ wpc = "serve"
  /\ audio_tokenizer.enc # <<>>
  /\ client_to_server' = QPut(client_to_server, Head(audio_tokenizer.enc))
  /\ audio_tokenizer' = [audio_tokenizer EXCEPT !.enc = Tail(@)]
  /\ UNCHANGED <<server_to_client, data, audio_tokens>>
  /\ UNCHANGED <<input_queue, output_queue, procVars, connVars>>
  /\ UNCHANGED <<sup, eng>>

\* recv_loop2: server_to_client.get(block=False); audio_tokenizer.decode
RecvLoop2 ==
  /\ wpc = "serve"
  /\ server_to_client # <<>>
  /\ LET g == QGet(server_to_client) IN
       /\ server_to_client' = g.rest
       /\ audio_tokens' = g.item
       /\ audio_tokenizer' =
            [audio_tokenizer EXCEPT !.dec = Append(@, Decode(g.item))]
  /\ UNCHANGED <<client_to_server, data>>
  /\ UNCHANGED <<input_queue, output_queue, procVars, connVars>>
  /\ UNCHANGED <<sup, eng>>

\* ---- numpy on PCM arrays --------------------------------------------------
\* np.concatenate((a, b)): adjacent segments of one source are one segment
Concat(a, b) ==
  IF a = <<>> THEN b
  ELSE IF b = <<>> THEN a
  ELSE LET x == a[Len(a)]
           y == b[1]
       IN IF x.src = y.src /\ x.hi = y.lo
            THEN SubSeq(a, 1, Len(a) - 1)
                   \o <<[src |-> x.src, lo |-> x.lo, hi |-> y.hi]>>
                   \o Tail(b)
            ELSE a \o b

\* a[:k]
RECURSIVE Take(_, _)
Take(a, k) ==
  IF a = <<>> \/ k <= 0 THEN <<>>
  ELSE LET x == Head(a)
           l == x.hi - x.lo
       IN IF l <= k
            THEN <<x>> \o Take(Tail(a), k - l)
            ELSE <<[src |-> x.src, lo |-> x.lo, hi |-> x.lo + k]>>

\* a[k:]
RECURSIVE Drop(_, _)
Drop(a, k) ==
  IF a = <<>> \/ k <= 0 THEN a
  ELSE LET x == Head(a)
           l == x.hi - x.lo
       IN IF l <= k
            THEN Drop(Tail(a), k - l)
            ELSE <<[src |-> x.src, lo |-> x.lo + k, hi |-> x.hi]>> \o Tail(a)

\* opus_loop's inner while loop: the chunks it puts and what stays buffered
RECURSIVE Chunks(_)
Chunks(buf) ==
  IF PcmLen(buf) >= FRAME_SIZE
    THEN <<Take(buf, FRAME_SIZE)>> \o Chunks(Drop(buf, FRAME_SIZE))
    ELSE <<>>

\* a remainder that is thrown away after the frames are cut
RemainderLost(buf) == <<>>

RECURSIVE Remainder(_)
Remainder(buf) ==
  IF PcmLen(buf) >= FRAME_SIZE THEN Remainder(Drop(buf, FRAME_SIZE)) ELSE buf

\* ---- the wire protocol ----------------------------------------------------
\* b"\x01" + msg
AudioFrame(msg) == <<1>> \o msg
\* b'\x00'
HandshakeFrame == <<0>>
\* kind = message[0]
Kind(msg) == msg[1]
\* a payload that still holds the kind byte (message[0:])
PayloadWithKind(msg) == SubSeq(msg, 1, Len(msg))

\* payload = message[1:]
PayloadOf(msg) == SubSeq(msg, 2, Len(msg))

BinMsg(d) == [type |-> "BINARY", data |-> d]
TextMsg == [type |-> "TEXT", data |-> <<>>]
\* what a client may send: audio frames, malformed binary frames, text
BadData == {<<>>, <<0, 1>>}
ClientMsgs ==
  {BinMsg(AudioFrame(p)) : p \in Payloads} \cup {BinMsg(d) : d \in BadData}
    \cup {TextMsg}

\* ---- asyncio.Lock ---------------------------------------------------------
LockFree(l) == ~l.locked /\ l.waiters = <<>>
Release(l) == [l EXCEPT !.locked = FALSE]

\* `if close: return` at the top of a session loop
CheckClose(cl) == IF cl THEN "done" ELSE "slp"

\* ws.send_bytes succeeds on an open connection; once the peer has closed or
\* the server has dropped the connection it may raise
SendOutcomes(c) == IF ws[c] = "open" THEN {TRUE} ELSE {TRUE, FALSE}

\* ---- handle_chat ----------------------------------------------------------
\* a handler that enters the session without waiting for the lock
HandleChatNoLock(c) ==
  /\ wpc = "serve"
  /\ hpc[c] = "none"
  /\ close' = [close EXCEPT ![c] = FALSE]
  /\ lock' = [lock EXCEPT !.locked = TRUE]
  /\ hpc' = [hpc EXCEPT ![c] = "locked"]
  /\ UNCHANGED <<tpc, ws, nmsg, message, opus_reader, all_pcm_data, pushed,
                 opus_writer, sent, dropped>>
  /\ UNCHANGED <<chanVars, gateVars, procVars>>
  /\ UNCHANGED <<sup, eng>>

\* ws.prepare, close = False, and entering `async with lock`
HandleChat(c) ==
  /\ wpc = "serve"
  /\ hpc[c] = "none"
  /\ close' = [close EXCEPT ![c] = FALSE]
  /\ IF LockFree(lock)
       THEN /\ lock' = [lock EXCEPT !.locked = TRUE]
            /\ hpc' = [hpc EXCEPT ![c] = "locked"]
       ELSE /\ lock' = [lock EXCEPT !.waiters = Append(@, c)]
            /\ hpc' = [hpc EXCEPT ![c] = "wait"]
  /\ UNCHANGED <<tpc, ws, nmsg, message, opus_reader, all_pcm_data, pushed,
                 opus_writer, sent, dropped>>
  /\ UNCHANGED <<chanVars, gateVars, procVars>>
  /\ UNCHANGED <<sup, eng>>

\* the first waiter of a released lock takes it
LockWake(c) ==
  /\ hpc[c] = "wait"
  /\ ~lock.locked
  /\ lock.waiters # <<>>
  /\ Head(lock.waiters) = c
  /\ lock' = [locked |-> TRUE, waiters |-> Tail(lock.waiters)]
  /\ hpc' = [hpc EXCEPT ![c] = "locked"]
  /\ UNCHANGED <<tpc, close, ws, nmsg, message, opus_reader, all_pcm_data,
                 pushed, opus_writer, sent, dropped>>
  /\ UNCHANGED <<chanVars, gateVars, procVars>>
  /\ UNCHANGED <<sup, eng>>

\* a session that starts its coroutines without sending the handshake byte
HandshakeSkipped(c) ==
  /\ hpc[c] = "locked"
  /\ opus_writer' = [opus_writer EXCEPT ![c] = <<>>]
  /\ opus_reader' = [opus_reader EXCEPT ![c] = [fed |-> <<>>, out |-> 0]]
  /\ hpc' = [hpc EXCEPT ![c] = "gather"]
  /\ tpc' = [tpc EXCEPT ![c] =
       [t \in Tasks |->
          IF t \in {"opus_loop", "recv_loop"} THEN "slp" ELSE "top"]]
  /\ UNCHANGED <<lock, ws, sent>>
  /\ UNCHANGED <<close, nmsg, message, all_pcm_data, pushed, dropped>>
  /\ UNCHANGED <<chanVars, gateVars, procVars>>
  /\ UNCHANGED <<sup, eng>>

\* inside the lock: the Opus pair, the handshake byte, asyncio.gather.
\* opus_loop (first of the gather) reaches its sleep and recv_loop its
\* first receive before any other session coroutine runs.
Handshake(c) ==
  /\ hpc[c] = "locked"
  /\ opus_writer' = [opus_writer EXCEPT ![c] = <<>>]
  /\ opus_reader' = [opus_reader EXCEPT ![c] = [fed |-> <<>>, out |-> 0]]
  /\ \E ok \in SendOutcomes(c) :
       IF ok
         THEN /\ sent' = [sent EXCEPT ![c] = Append(@, HandshakeFrame)]
              /\ hpc' = [hpc EXCEPT ![c] = "gather"]
              /\ tpc' = [tpc EXCEPT ![c] =
                   [t \in Tasks |->
                      IF t \in {"opus_loop", "recv_loop"} THEN "slp" ELSE "top"]]
              /\ UNCHANGED <<lock, ws>>
         ELSE /\ lock' = Release(lock)
              /\ hpc' = [hpc EXCEPT ![c] = "failed"]
              /\ ws' = [ws EXCEPT ![c] = "gone"]
              /\ UNCHANGED <<sent, tpc>>
  /\ UNCHANGED <<close, nmsg, message, all_pcm_data, pushed, dropped>>
  /\ UNCHANGED <<chanVars, gateVars, procVars>>
  /\ UNCHANGED <<sup, eng>>

\* a handler that empties the two PCM queues when its session ends
GatherDoneDrains(c) ==
  /\ hpc[c] = "gather"
  /\ \A t \in Tasks : tpc[c][t] = "done"
  /\ lock' = Release(lock)
  /\ hpc' = [hpc EXCEPT ![c] = "closed"]
  /\ ws' = [ws EXCEPT ![c] = "gone"]
  /\ input_queue' = <<>>
  /\ output_queue' = <<>>
  /\ UNCHANGED <<tpc, close, nmsg, message, opus_reader, all_pcm_data, pushed,
                 opus_writer, sent, dropped>>
  /\ UNCHANGED <<chanVars, audio_tokenizer, procVars>>
  /\ UNCHANGED <<sup, eng>>

\* asyncio.gather returns once all four coroutines have returned
GatherDone(c) ==
  /\ hpc[c] = "gather"
  /\ \A t \in Tasks : tpc[c][t] = "done"
  /\ lock' = Release(lock)
  /\ hpc' = [hpc EXCEPT ![c] = "closed"]
  /\ ws' = [ws EXCEPT ![c] = "gone"]
  /\ UNCHANGED <<tpc, close, nmsg, message, opus_reader, all_pcm_data, pushed,
                 opus_writer, sent, dropped>>
  /\ UNCHANGED <<chanVars, gateVars, procVars>>
  /\ UNCHANGED <<sup, eng>>

\* asyncio.gather (return_exceptions=False) raises as soon as one coroutine
\* has raised; the others are not cancelled
GatherRaise(c) ==
  /\ hpc[c] = "gather"
  /\ \E t \in Tasks : tpc[c][t] = "exc"
  /\ lock' = Release(lock)
  /\ hpc' = [hpc EXCEPT ![c] = "failed"]
  /\ ws' = [ws EXCEPT ![c] = "gone"]
  /\ UNCHANGED <<tpc, close, nmsg, message, opus_reader, all_pcm_data, pushed,
                 opus_writer, sent, dropped>>
  /\ UNCHANGED <<chanVars, gateVars, procVars>>
  /\ UNCHANGED <<sup, eng>>

\* ---- the four coroutines of one session -----------------------------------
\* first run of send_loop / another_loop: the check of the closed flag
TaskStart(c, t) ==
  /\ t \in {"send_loop", "another_loop"}
  /\ tpc[c][t] = "top"
  /\ tpc' = [tpc EXCEPT ![c][t] = CheckClose(close[c])]
  /\ UNCHANGED <<lock, hpc, close, ws, nmsg, message, opus_reader,
                 all_pcm_data, pushed, opus_writer, sent, dropped>>
  /\ UNCHANGED <<chanVars, gateVars, procVars>>
  /\ UNCHANGED <<sup, eng>>

\* a reader that ends without setting the closed flag
ChatRecvEndNoFlag(c, ev) ==
  /\ tpc[c]["recv_loop"] = "slp"
  /\ ws[c] # "open"
  /\ message' = IF ev = "ERROR" THEN [type |-> "ERROR", data |-> <<>>] ELSE message
  /\ tpc' = [tpc EXCEPT ![c]["recv_loop"] = "done"]
  /\ UNCHANGED <<lock, hpc, close, ws, nmsg, opus_reader, all_pcm_data,
                 pushed, opus_writer, sent, dropped>>
  /\ UNCHANGED <<chanVars, gateVars, procVars>>
  /\ UNCHANGED <<sup, eng>>

\* recv_loop (Inbound Reader) on a connection that is gone: the body
\* breaks on an ERROR message, the iteration over ws ends on a close;
\* `finally` sets the closed flag
ChatRecvEnd(c, ev) ==
  /\ tpc[c]["recv_loop"] = "slp"
  /\ ws[c] # "open"
  /\ message' = IF ev = "ERROR" THEN [type |-> "ERROR", data |-> <<>>] ELSE message
  /\ close' = [close EXCEPT ![c] = TRUE]
  /\ tpc' = [tpc EXCEPT ![c]["recv_loop"] = "done"]
  /\ UNCHANGED <<lock, hpc, ws, nmsg, opus_reader, all_pcm_data,
                 pushed, opus_writer, sent, dropped>>
  /\ UNCHANGED <<chanVars, gateVars, procVars>>
  /\ UNCHANGED <<sup, eng>>

\* a reader that ends the session on a message it cannot use
ChatRecvMsgStrict(c, m) ==
  /\ tpc[c]["recv_loop"] = "slp"
  /\ ws[c] = "open"
  /\ nmsg < MaxMsgs
  /\ nmsg' = nmsg + 1
  /\ message' = m
  /\ IF m.type = "BINARY" /\ Len(m.data) > 0 /\ Kind(m.data) = 1
       THEN /\ opus_reader' =
                 [opus_reader EXCEPT ![c].fed = Append(@, PayloadOf(m.data))]
            /\ UNCHANGED <<dropped, close, tpc>>
       ELSE /\ dropped' = dropped + 1
            /\ close' = [close EXCEPT ![c] = TRUE]
            /\ tpc' = [tpc EXCEPT ![c]["recv_loop"] = "done"]
            /\ UNCHANGED opus_reader
  /\ UNCHANGED <<lock, hpc, ws, all_pcm_data, pushed, opus_writer, sent>>
  /\ UNCHANGED <<chanVars, gateVars, procVars>>
  /\ UNCHANGED <<sup, eng>>

\* a reader that ends, setting the closed flag, on a non-binary message
ChatRecvMsgTextEnds(c, m) ==
  /\ tpc[c]["recv_loop"] = "slp"
  /\ ws[c] = "open"
  /\ nmsg < MaxMsgs
  /\ nmsg' = nmsg + 1
  /\ message' = m
  /\ IF m.type # "BINARY"
       THEN /\ dropped' = dropped + 1
            /\ close' = [close EXCEPT ![c] = TRUE]
            /\ tpc' = [tpc EXCEPT ![c]["recv_loop"] = "done"]
            /\ UNCHANGED opus_reader
       ELSE /\ UNCHANGED <<close, tpc>>
            /\ IF Len(m.data) > 0 /\ Kind(m.data) = 1
                 THEN /\ opus_reader' =
                           [opus_reader EXCEPT ![c].fed = Append(@, PayloadOf(m.data))]
                      /\ UNCHANGED dropped
                 ELSE /\ dropped' = dropped + 1
                      /\ UNCHANGED opus_reader
  /\ UNCHANGED <<lock, hpc, ws, all_pcm_data, pushed, opus_writer, sent>>
  /\ UNCHANGED <<chanVars, gateVars, procVars>>
  /\ UNCHANGED <<sup, eng>>

\* recv_loop, the body for one received message
ChatRecvMsg(c, m) ==
  /\ tpc[c]["recv_loop"] = "slp"
  /\ ws[c] = "open"
  /\ nmsg < MaxMsgs
  /\ nmsg' = nmsg + 1
  /\ message' = m
  /\ IF m.type # "BINARY"
       THEN /\ dropped' = dropped + 1
            /\ UNCHANGED opus_reader
       ELSE IF Len(m.data) = 0
         THEN /\ dropped' = dropped + 1
              /\ UNCHANGED opus_reader
         ELSE IF Kind(m.data) = 1
           THEN /\ opus_reader' =
                     [opus_reader EXCEPT ![c].fed = Append(@, PayloadOf(m.data))]
                /\ UNCHANGED dropped
           ELSE /\ dropped' = dropped + 1
                /\ UNCHANGED opus_reader
  /\ UNCHANGED <<lock, hpc, tpc, close, ws, all_pcm_data, pushed, opus_writer,
                 sent>>
  /\ UNCHANGED <<chanVars, gateVars, procVars>>
  /\ UNCHANGED <<sup, eng>>

\* opus_reader.read_pcm(): nothing ready, or the PCM of the next payload fed
ReadOutcomes(r) ==
  {[n |-> 0, adv |-> 0]} \cup
    (IF r.fed # <<>>
       THEN IF Head(r.fed) = <<>>
              THEN {[n |-> 0, adv |-> 1]}
              ELSE {[n |-> l, adv |-> 1] : l \in PcmLens}
       ELSE {})

\* opus_loop (PCM Assembler): one iteration after the sleep, then the check
\* of the closed flag at the top of the next one
ChatOpusLoop(c) ==
  /\ tpc[c]["opus_loop"] = "slp"
  /\ \E o \in ReadOutcomes(opus_reader[c]) :
       LET r == opus_reader[c]
           pcm == IF o.n = 0 THEN <<>> ELSE Pcm(c, r.out, r.out + o.n)
           buf == IF PcmLen(pcm) = 0 THEN all_pcm_data[c]
                  ELSE IF all_pcm_data[c] = <<>> THEN pcm
                  ELSE Concat(all_pcm_data[c], pcm)
       IN /\ opus_reader' = [opus_reader EXCEPT ![c] =
                               [fed |-> IF o.adv = 1 THEN Tail(r.fed) ELSE r.fed,
                                out |-> r.out + o.n]]
          /\ input_queue' = input_queue \o Chunks(buf)
          /\ all_pcm_data' = [all_pcm_data EXCEPT ![c] = Remainder(buf)]
          /\ pushed' = [pushed EXCEPT ![c] = @ + Len(Chunks(buf))]
  /\ tpc' = [tpc EXCEPT ![c]["opus_loop"] = CheckClose(close[c])]
  /\ UNCHANGED <<lock, hpc, close, ws, nmsg, message, opus_writer, sent,
                 dropped>>
  /\ UNCHANGED <<output_queue, audio_tokenizer, chanVars, procVars>>
  /\ UNCHANGED <<sup, eng>>

\* opus_writer.read_bytes(): nothing, or the bytes of what was appended
WriterOutcomes(w) == {<<>>} \cup (IF w # <<>> THEN {OpusChunk(w)} ELSE {})

\* a sender that looks at the closed flag only after it has sent something
ChatSendLoopWaits(c) ==
  /\ tpc[c]["send_loop"] = "slp"
  /\ \E msg \in WriterOutcomes(opus_writer[c]) :
       IF Len(msg) > 0
         THEN /\ opus_writer' = [opus_writer EXCEPT ![c] = <<>>]
              /\ \E ok \in SendOutcomes(c) :
                   IF ok
                     THEN /\ sent' = [sent EXCEPT ![c] = Append(@, AudioFrame(msg))]
                          /\ tpc' = [tpc EXCEPT ![c]["send_loop"] = CheckClose(close[c])]
                     ELSE /\ tpc' = [tpc EXCEPT ![c]["send_loop"] = "exc"]
                          /\ UNCHANGED sent
         ELSE UNCHANGED <<tpc, opus_writer, sent>>
  /\ UNCHANGED <<lock, hpc, close, ws, nmsg, message, opus_reader,
                 all_pcm_data, pushed, dropped>>
  /\ UNCHANGED <<chanVars, gateVars, procVars>>
  /\ UNCHANGED <<sup, eng>>

\* send_loop (websocket sender): one iteration after the sleep
ChatSendLoop(c) ==
  /\ tpc[c]["send_loop"] = "slp"
  /\ \E msg \in WriterOutcomes(opus_writer[c]) :
       IF Len(msg) > 0
         THEN /\ opus_writer' = [opus_writer EXCEPT ![c] = <<>>]
              /\ \E ok \in SendOutcomes(c) :
                   IF ok
                     THEN /\ sent' = [sent EXCEPT ![c] = Append(@, AudioFrame(msg))]
                          /\ tpc' = [tpc EXCEPT ![c]["send_loop"] = CheckClose(close[c])]
                     ELSE /\ tpc' = [tpc EXCEPT ![c]["send_loop"] = "exc"]
                          /\ UNCHANGED sent
         ELSE /\ tpc' = [tpc EXCEPT ![c]["send_loop"] = CheckClose(close[c])]
              /\ UNCHANGED <<opus_writer, sent>>
  /\ UNCHANGED <<lock, hpc, close, ws, nmsg, message, opus_reader,
                 all_pcm_data, pushed, dropped>>
  /\ UNCHANGED <<chanVars, gateVars, procVars>>
  /\ UNCHANGED <<sup, eng>>

\* an Output Writer whose get waits until output_queue has a frame
ChatAnotherLoopBlocking(c) ==
  /\ tpc[c]["another_loop"] = "slp"
  /\ output_queue # <<>>
  /\ LET g == QGet(output_queue) IN
       /\ output_queue' = g.rest
       /\ IF PcmLen(g.item) = FRAME_SIZE
            THEN /\ opus_writer' = [opus_writer EXCEPT ![c] = Append(@, g.item)]
                 /\ tpc' = [tpc EXCEPT ![c]["another_loop"] = CheckClose(close[c])]
            ELSE /\ tpc' = [tpc EXCEPT ![c]["another_loop"] = "exc"]
                 /\ UNCHANGED opus_writer
  /\ UNCHANGED <<lock, hpc, close, ws, nmsg, message, opus_reader,
                 all_pcm_data, pushed, sent, dropped>>
  /\ UNCHANGED <<input_queue, audio_tokenizer, chanVars, procVars>>
  /\ UNCHANGED <<sup, eng>>

\* another_loop (Output Writer): one iteration after the sleep
ChatAnotherLoop(c) ==
  /\ tpc[c]["another_loop"] = "slp"
  /\ IF output_queue = <<>>
       THEN /\ tpc' = [tpc EXCEPT ![c]["another_loop"] = CheckClose(close[c])]
            /\ UNCHANGED <<output_queue, opus_writer>>
       ELSE LET g == QGet(output_queue) IN
              /\ output_queue' = g.rest
              /\ IF PcmLen(g.item) = FRAME_SIZE
                   THEN /\ opus_writer' = [opus_writer EXCEPT ![c] = Append(@, g.item)]
                        /\ tpc' = [tpc EXCEPT ![c]["another_loop"] = CheckClose(close[c])]
                   ELSE /\ tpc' = [tpc EXCEPT ![c]["another_loop"] = "exc"]
                        /\ UNCHANGED opus_writer
  /\ UNCHANGED <<lock, hpc, close, ws, nmsg, message, opus_reader,
                 all_pcm_data, pushed, sent, dropped>>
  /\ UNCHANGED <<input_queue, audio_tokenizer, chanVars, procVars>>
  /\ UNCHANGED <<sup, eng>>

\* ---- the client -----------------------------------------------------------
\* the peer closes, or the connection breaks
ClientClose(c) ==
  /\ hpc[c] \in {"wait", "locked", "gather"}
  /\ ws[c] = "open"
  /\ ws' = [ws EXCEPT ![c] = "gone"]
  /\ UNCHANGED <<lock, hpc, tpc, close, nmsg, message, opus_reader,
                 all_pcm_data, pushed, opus_writer, sent, dropped>>
  /\ UNCHANGED <<chanVars, gateVars, procVars>>
  /\ UNCHANGED <<sup, eng>>

\* ---- the system -----------------------------------------------------------
\* the state when main() has built the two queues and started both
\* processes; `on` says whether the engine's record is kept
InitWith(on) ==
  /\ client_to_server = <<>>
  /\ server_to_client = <<>>
  /\ input_queue = <<>>
  /\ output_queue = <<>>
  /\ audio_tokenizer = [enc |-> <<>>, dec |-> <<>>]
  /\ mpc = "init"
  /\ wpc = "start"
  /\ warm = [i |-> 0, puts |-> 0, gets |-> 0]
  /\ lock = [locked |-> FALSE, waiters |-> <<>>]
  /\ hpc = [c \in Conns |-> "none"]
  /\ tpc = [c \in Conns |-> [t \in Tasks |-> "idle"]]
  /\ close = [c \in Conns |-> FALSE]
  /\ ws = [c \in Conns |-> "open"]
  /\ nmsg = 0
  /\ message = NoMsg
  /\ opus_reader = [c \in Conns |-> [fed |-> <<>>, out |-> 0]]
  /\ all_pcm_data = [c \in Conns |-> <<>>]
  /\ pushed = [c \in Conns |-> 0]
  /\ opus_writer = [c \in Conns |-> <<>>]
  /\ sent = [c \in Conns |-> <<>>]
  /\ dropped = 0
  /\ data = NoFrame
  /\ audio_tokens = NoFrame
  /\ sup = "watch"
  /\ eng = [on |-> on, steps |-> 0, emitted |-> 0, text_token |-> 0,
            logged |-> FALSE]

Init == InitWith(FALSE)

Next ==
  \/ ModelServerStart
  \/ ModelServerStep
  \/ WebServerStart
  \/ WarmupPut
  \/ WarmupGet
  \/ SendLoop
  \/ RecvLoop
  \/ SendLoop2
  \/ RecvLoop2
  \/ \E c \in Conns : HandleChat(c)
  \/ \E c \in Conns : LockWake(c)
  \/ \E c \in Conns : Handshake(c)
  \/ \E c \in Conns : GatherDone(c)
  \/ \E c \in Conns : GatherRaise(c)
  \/ \E c \in Conns, t \in Tasks : TaskStart(c, t)
  \/ \E c \in Conns, ev \in {"CLOSE", "ERROR"} : ChatRecvEnd(c, ev)
  \/ \E c \in Conns, m \in ClientMsgs : ChatRecvMsg(c, m)
  \/ \E c \in Conns : ChatOpusLoop(c)
  \/ \E c \in Conns : ChatSendLoop(c)
  \/ \E c \in Conns : ChatAnotherLoop(c)
  \/ \E c \in Conns : ClientClose(c)

Spec == Init /\ [][Next]_vars

\* A step of connection c's handler or of one of its session coroutines
\* (the client's own moves, sending a message or going away, are not here).
SessionStep(c) ==
  \/ \E ev \in {"CLOSE", "ERROR"} : ChatRecvEnd(c, ev)
  \/ \E t \in Tasks : TaskStart(c, t)
  \/ ChatOpusLoop(c)
  \/ ChatSendLoop(c)
  \/ ChatAnotherLoop(c)
  \/ GatherDone(c)
  \/ GatherRaise(c)
  \/ LockWake(c)
  \/ Handshake(c)

\* The asyncio loop runs every coroutine that is ready (a finished sleep, a
\* released lock, a finished gather, a closed connection to read from), so
\* a connection whose handler or coroutines can move is not left waiting
\* for ever: weak fairness of each connection's steps.
SessionFair(c) == WF_vars(SessionStep(c))

\* The liveness runs give the clients one data message less than MaxMsgs.
NextFair == Next /\ nmsg' < MaxMsgs

FairSpec == Init /\ [][NextFair]_vars /\ \A c \in Conns : SessionFair(c)

\* The same runs, in which a generation step may also fail. Nothing is
\* assumed about the engine: it may stop stepping at any time.
NextDie ==
  \/ NextFair
  \/ ModelServerDie

DieFairSpec == Init /\ [][NextDie]_vars /\ \A c \in Conns : SessionFair(c)

\* The three processes together: main() watching the two children, the
\* engine possibly failing, the operator possibly interrupting. A
\* terminated gateway takes no step.
NextSup ==
  \/ IsAlive(wpc) /\ NextFair
  \/ ModelServerDie
  \/ MainLoopExit
  \/ MainInterrupt
  \/ MainJoinP1
  \/ MainJoinP2

\* main() polls is_alive every millisecond and a join returns when its
\* process has ended; the gateway's asyncio loop runs as in FairSpec.
SupSpec ==
  /\ Init /\ [][NextSup]_vars
  /\ WF_vars(MainLoopExit) /\ WF_vars(MainJoinP1) /\ WF_vars(MainJoinP2)
  /\ \A c \in Conns : SessionFair(c)

\* Start-up with both processes running: the engine takes every frame
\* that is waiting for it and the codec returns, so neither the engine's
\* loop nor full_warmup stays at a step it can take. Whether a step emits a
\* frame is still the generator's choice.
WarmFairSpec ==
  /\ Init /\ [][NextFair]_vars
  /\ WF_vars(ModelServerStart) /\ WF_vars(ModelServerStep)
  /\ WF_vars(WebServerStart) /\ WF_vars(WarmupPut) /\ WF_vars(WarmupGet)

\* The runs in which the engine's record is kept.
InitTraced == InitWith(TRUE)

EngineSpec == InitTraced /\ [][NextFair]_vars

\* ---- properties -----------------------------------------------------------
Exited(c) == \A t \in Tasks : tpc[c][t] \in {"idle", "done", "exc"}
Streaming(c) == hpc[c] = "gather"
HoldsLock(c) == hpc[c] \in {"locked", "gather"}
IsAudio(frame) == Len(frame) >= 1 /\ frame[1] = 1

\* C1: at most one handler is Streaming and at most one holds the
\* SessionLock; a handler waiting for the lock has sent nothing; a handler
\* is past the lock only while every other handler is before it (not
\* connected, waiting) or has left it (closed, failed).
C1_MutualExclusion ==
  /\ Cardinality({c \in Conns : Streaming(c)}) <= 1
  /\ Cardinality({c \in Conns : HoldsLock(c)}) <= 1
  /\ \A c \in Conns : HoldsLock(c) => lock.locked
  /\ \A c \in Conns : hpc[c] \in {"none", "wait"} => sent[c] = <<>>
  /\ \A c, d \in Conns :
       (c # d /\ HoldsLock(d)) => hpc[c] \in {"none", "wait", "closed", "failed"}

\* one session is Streaming while a second connection waits for the lock
C1_Witness ==
  \E c, d \in Conns :
    /\ Streaming(c) /\ ~Exited(c)
    /\ hpc[d] = "wait" /\ sent[d] = <<>>

\* C2: a handler that has left the lock (closed or failed) has no
\* coroutine of its session still running.
C2_ReleaseAfterExit ==
  \A c \in Conns : hpc[c] \in {"closed", "failed"} => Exited(c)

\* C3: on every connection the first frame sent is the handshake byte 0x00,
\* nothing is sent before the lock is acquired, the handshake is sent once,
\* and every later frame is a 0x01 audio frame.
C3_HandshakeFirst ==
  \A c \in Conns :
    /\ hpc[c] \in {"none", "wait", "locked"} => sent[c] = <<>>
    /\ sent[c] # <<>> => sent[c][1] = <<0>>
    /\ \A i \in 2..Len(sent[c]) : sent[c][i] # <<0>> /\ IsAudio(sent[c][i])

\* a connection has received the handshake and then an audio frame
C3_Witness == \E c \in Conns : Len(sent[c]) >= 2 /\ sent[c][1] = <<0>>

Max(a, b) == IF a >= b THEN a ELSE b

\* C4: full_warmup does 4 iterations with 4 puts on client_to_server and 3
\* gets from server_to_client (none in the first iteration, one in each
\* later one); until it has returned no connection is accepted, nothing is
\* sent and no bridge coroutine has moved anything.
C4_WarmupCounts ==
  /\ wpc = "start" => warm = [i |-> 0, puts |-> 0, gets |-> 0]
  /\ wpc = "put" => warm.i < 4 /\ warm.puts = warm.i /\ warm.gets = Max(warm.i - 1, 0)
  /\ wpc = "get" => warm.i \in 1..3 /\ warm.puts = warm.i + 1 /\ warm.gets = warm.i - 1
  /\ wpc = "serve" => warm = [i |-> 4, puts |-> 4, gets |-> 3]
  /\ wpc # "serve" =>
       /\ \A c \in Conns : hpc[c] = "none" /\ sent[c] = <<>>
       /\ input_queue = <<>> /\ output_queue = <<>>
       /\ audio_tokenizer = [enc |-> <<>>, dec |-> <<>>]
       /\ Len(client_to_server) <= warm.puts

\* the warmup has returned and a session has got its handshake
C4_Witness == wpc = "serve" /\ \E c \in Conns : sent[c] # <<>>

\* C5: nothing generated from a priming input (src = 0) is on the PCM-out
\* channel, in a session's Opus writer, or in a frame sent to a client.
FromWarmup(pcm) == \E i \in 1..Len(pcm) : pcm[i].src = 0
C5_WarmupIsolation ==
  /\ \A i \in 1..Len(output_queue) : ~FromWarmup(output_queue[i])
  /\ \A c \in Conns :
       /\ \A i \in 1..Len(opus_writer[c]) : ~FromWarmup(opus_writer[c][i])
       /\ \A i \in 2..Len(sent[c]) :
            \A j \in 2..Len(sent[c][i]) : sent[c][i][j] \div 16 # 0

\* C6: every PCM array on input_queue is one run of exactly 1920 samples,
\* starting at a multiple of 1920 of its session's stream; after a poll
\* the buffer holds fewer than 1920 samples, namely the last samples read;
\* samples read = 1920 * frames pushed + buffered remainder.
C6_Framing ==
  /\ \A i \in 1..Len(input_queue) :
       LET f == input_queue[i] IN
         /\ PcmLen(f) = 1920
         /\ Len(f) = 1
         /\ f[1].src \in Conns
         /\ f[1].lo % 1920 = 0
         /\ f[1].lo \div 1920 < pushed[f[1].src]
         /\ \A j \in 1..(i - 1) :
              input_queue[j][1].src = f[1].src => input_queue[j][1].hi <= f[1].lo
  /\ \A c \in Conns :
       /\ PcmLen(all_pcm_data[c]) < 1920
       /\ opus_reader[c].out = 1920 * pushed[c] + PcmLen(all_pcm_data[c])
       /\ all_pcm_data[c] =
            IF opus_reader[c].out = 1920 * pushed[c] THEN <<>>
            ELSE Pcm(c, 1920 * pushed[c], opus_reader[c].out)

\* several frames were cut and a remainder is kept for the next poll
C6_Witness ==
  \E c \in Conns : pushed[c] >= 2 /\ PcmLen(all_pcm_data[c]) > 0

\* C7: client_to_server and server_to_client change only by an append at
\* the tail or by the removal of the head; the frame the engine takes is
\* the head of client_to_server, and the head taken from server_to_client
\* is the "start" sentinel or the frame handed to the decoder.
C7_Fifo ==
  [][ /\ client_to_server' # client_to_server =>
           \/ /\ Len(client_to_server') = Len(client_to_server) + 1
              /\ SubSeq(client_to_server', 1, Len(client_to_server)) = client_to_server
           \/ /\ client_to_server # <<>>
              /\ client_to_server' = Tail(client_to_server)
              /\ data' = Head(client_to_server)
      /\ server_to_client' # server_to_client =>
           \/ /\ Len(server_to_client') = Len(server_to_client) + 1
              /\ SubSeq(server_to_client', 1, Len(server_to_client)) = server_to_client
           \/ /\ server_to_client # <<>>
              /\ server_to_client' = Tail(server_to_client)
              /\ \/ Head(server_to_client) = StartMsg
                 \/ audio_tokens' = Head(server_to_client)
    ]_vars

\* the engine has taken a session frame while another one is queued behind
\* it, and the Decode Bridge has handed a session frame to the decoder
C7_Witness ==
  /\ data.src # 0 /\ data.n = 0
  /\ Len(client_to_server) >= 2
  /\ audio_tokens.src # 0

\* C8: a received message that is not binary, is empty, or does not start
\* with 1 changes nothing of any session: closed flags, Opus readers,
\* handler and coroutine positions, lock and connections stay as they
\* were (the reader is still receiving), and the drop is logged.
IsViolation(m) ==
  \/ m.type # "BINARY"
  \/ Len(m.data) = 0
  \/ m.data[1] # 1
C8_DropAndContinue ==
  [][ (nmsg' = nmsg + 1 /\ IsViolation(message')) =>
        /\ close' = close
        /\ opus_reader' = opus_reader
        /\ hpc' = hpc
        /\ tpc' = tpc
        /\ lock' = lock
        /\ ws' = ws
        /\ dropped' = dropped + 1
    ]_vars

\* after a dropped message the same session has taken a valid audio frame
C8_Witness ==
  /\ dropped >= 1
  /\ message = BinMsg(<<1, 1, 0>>)
  /\ hpc[1] = "gather" /\ ~close[1] /\ tpc[1]["recv_loop"] = "slp"
  /\ hpc[2] = "none"
  /\ opus_reader[1].fed = << <<1, 0>> >>

\* C9: under fair scheduling, once the connection of a Streaming session is
\* gone its closed flag is eventually set, all its coroutines have exited
\* and it has left the lock; a connection waiting for the lock meanwhile,
\* or one that has taken the lock, eventually gets its handshake (unless
\* its own peer has gone); and no step that sets a closed flag or ends a
\* session changes the engine, the gateway's position or the channels.
C9_CloseThenServe ==
  /\ \A c \in Conns :
       (Streaming(c) /\ ws[c] = "gone")
         ~> (close[c] /\ Exited(c) /\ ~HoldsLock(c))
  /\ \A d \in Conns :
       (\/ hpc[d] = "locked"
        \/ /\ hpc[d] = "wait"
           /\ \E c \in Conns \ {d} : Streaming(c) /\ ws[c] = "gone")
         ~> (sent[d] # <<>> \/ ws[d] = "gone")
  /\ [][ (\E c \in Conns : close'[c] # close[c] \/ (Streaming(c) /\ hpc'[c] # hpc[c])) =>
          /\ mpc' = mpc /\ wpc' = wpc
          /\ client_to_server' = client_to_server
          /\ server_to_client' = server_to_client
          /\ input_queue' = input_queue
          /\ output_queue' = output_queue
          /\ audio_tokenizer' = audio_tokenizer
     ]_vars

\* the first session is over, its closed flag set and its coroutines gone,
\* and the connection that waited for the lock has its handshake
C9_Witness ==
  \E c, d \in Conns :
    /\ c # d
    /\ hpc[c] = "closed" /\ close[c] /\ Exited(c)
    /\ Streaming(d) /\ sent[d] # <<>> /\ ws[d] = "open"
    /\ mpc = "loop" /\ wpc = "serve"

\* C10: a received binary frame 0x01 ++ p, for any payload p, appends
\* exactly p to one session's Opus reader and is not dropped; every frame
\* sent after the handshake is 0x01 followed by at least one Opus byte.
C10_RoundTrip ==
  /\ [][ \A p \in Payloads :
           (nmsg' = nmsg + 1 /\ message' = BinMsg(<<1>> \o p)) =>
             /\ dropped' = dropped
             /\ \E c \in Conns :
                  /\ opus_reader'[c].fed = Append(opus_reader[c].fed, p)
                  /\ \A d \in Conns \ {c} : opus_reader'[d] = opus_reader[d]
       ]_vars
  /\ [](\A c \in Conns : \A i \in 2..Len(sent[c]) :
          sent[c][i][1] = 1 /\ Len(sent[c][i]) >= 2)

\* an audio frame with a two-byte payload was parsed and an audio frame sent
C10_Witness ==
  /\ message = BinMsg(<<1, 1, 0>>)
  /\ \E c \in Conns : Len(sent[c]) >= 2

\* C11, as written: once the engine process has terminated, a Streaming
\* session stays Streaming: it never reaches Closed and never releases the
\* lock.
C11_EngineDeathHangs ==
  [][ \A c \in Conns : (mpc = "dead" /\ Streaming(c)) => Streaming(c)' ]_vars

\* C11, amended: recv_loop2 polls server_to_client without blocking, so a
\* dead engine stops nothing in the gateway: when the engine has terminated
\* and the connection of a Streaming session ends, the session sets its
\* closed flag, leaves Streaming and releases the lock; and the engine's
\* death itself changes nothing of any session.
C11_EngineDeathNoHang ==
  /\ \A c \in Conns :
       (mpc = "dead" /\ Streaming(c) /\ ws[c] = "gone")
         ~> (mpc = "dead" /\ close[c] /\ ~HoldsLock(c))
  /\ [][ (mpc = "loop" /\ mpc' = "dead") =>
          /\ wpc' = wpc
          /\ UNCHANGED connVars
          /\ UNCHANGED gateVars ]_vars

\* the engine has died on a frame of connection c's session while c is
\* still Streaming with its connection open
C11_Witness ==
  \E c \in Conns :
    /\ mpc = "dead" /\ wpc = "serve"
    /\ data.src = c
    /\ Streaming(c) /\ ~close[c] /\ ws[c] = "open"

\* C12: once the engine process has terminated on a failed generation
\* step, the gateway starts no further session (no handler sends a
\* handshake and starts its coroutines), and main() gets through both
\* joins and finishes.
C12_EngineFailureFatal ==
  /\ [][ (mpc = "dead") =>
          \A c \in Conns : Streaming(c)' => Streaming(c) ]_vars
  /\ (mpc = "dead") ~> (sup = "done")

\* C13: the engine makes exactly one generation step per frame it takes off
\* client_to_server and puts at most one generated frame on
\* server_to_client per step, so the frames it has put never outnumber the
\* frames it has taken; a step's text token is logged exactly when it is
\* neither 0 nor 3, and whatever the token is, the frame taken is the head
\* of client_to_server and the frame put, if any, is the one generated
\* from it.
C13_StepContract ==
  /\ [](eng.emitted <= eng.steps)
  /\ [][ /\ (Len(client_to_server') < Len(client_to_server)) <=>
               (eng'.steps = eng.steps + 1)
         /\ eng'.steps # eng.steps =>
              /\ eng'.steps = eng.steps + 1
              /\ client_to_server # <<>>
              /\ client_to_server' = Tail(client_to_server)
              /\ data' = Head(client_to_server)
              /\ eng'.emitted \in {eng.emitted, eng.emitted + 1}
              /\ server_to_client' =
                   IF eng'.emitted = eng.emitted
                     THEN server_to_client
                     ELSE Append(server_to_client,
                                 Generate(Head(client_to_server)))
              /\ eng'.logged <=> eng'.text_token \notin {0, 3}
         /\ eng'.steps = eng.steps =>
              /\ eng' = eng
              /\ Len(server_to_client') > Len(server_to_client) =>
                   mpc = "init" /\ server_to_client' = <<StartMsg>>
     ]_vars

\* the engine has taken a session's frame after the four priming ones,
\* has put fewer frames than it took, and has just logged a text token
C13_Witness ==
  /\ eng.steps >= 5 /\ eng.emitted >= 3 /\ eng.emitted < eng.steps
  /\ data.src # 0
  /\ eng.text_token = 5 /\ eng.logged

\* C14: the step by which a session leaves Streaming removes nothing from
\* input_queue, client_to_server, server_to_client, output_queue or the
\* codec; a frame leaves output_queue only into the Opus writer of a
\* session whose another_loop is running, so with no Output Writer running
\* output_queue only grows; what session k's input left behind is taken by
\* the Output Writer of the next session.
C14_CloseDrainsNothing ==
  [][ /\ (\E c \in Conns : Streaming(c) /\ ~Streaming(c)') =>
           /\ UNCHANGED <<input_queue, output_queue, audio_tokenizer>>
           /\ UNCHANGED <<client_to_server, server_to_client>>
      /\ output_queue' # output_queue =>
           \/ /\ Len(output_queue') = Len(output_queue) + 1
              /\ SubSeq(output_queue', 1, Len(output_queue)) = output_queue
           \/ /\ output_queue # <<>>
              /\ output_queue' = Tail(output_queue)
              /\ \E c \in Conns :
                   /\ tpc[c]["another_loop"] = "slp"
                   /\ opus_writer'[c] =
                        Append(opus_writer[c], Head(output_queue))
      /\ \A c \in Conns :
           (hpc[c] = "closed" /\ Exited(c)) => opus_writer'[c] = opus_writer[c]
    ]_vars

\* session c has closed with all its coroutines returned, and PCM decoded
\* from c's input has been taken by the Output Writer of the session that
\* followed it
C14_Witness ==
  \E c, d \in Conns :
    /\ c # d
    /\ hpc[c] = "closed" /\ Exited(c)
    /\ Streaming(d) /\ tpc[d]["another_loop"] = "slp"
    /\ opus_writer[c] = <<>>
    /\ \E i \in 1..Len(opus_writer[d]) : opus_writer[d][i][1].src = c

\* C15: a session coroutine that observes the end of the connection sets
\* the session's closed flag: recv_loop when it ends, and send_loop when
\* its ws.send_bytes fails; a flag that is set is never cleared; and with
\* the flag set, the next iteration of opus_loop, send_loop or another_loop
\* is its last.
C15_ClosedFlagProtocol ==
  [][ \A c \in Conns :
        /\ (tpc[c]["recv_loop"] = "slp" /\ tpc'[c]["recv_loop"] = "done")
             => close'[c]
        /\ (tpc[c]["send_loop"] = "slp" /\ tpc'[c]["send_loop"] = "exc")
             => close'[c]
        /\ close[c] => close'[c]
        /\ \A t \in Tasks \ {"recv_loop"} :
             (close[c] /\ tpc[c][t] \in {"top", "slp"} /\ tpc'[c][t] # tpc[c][t])
               => tpc'[c][t] \in {"done", "exc"}
    ]_vars

\* C16, as written: a received non-binary message ends the Inbound Reader
\* of its session with the closed flag set, as an error or close event
\* does; a received binary message ends no reader and sets no flag.
C16_ReaderEndsOnNonBinary ==
  [][ /\ (nmsg' = nmsg + 1 /\ message'.type # "BINARY") =>
           \E c \in Conns :
             /\ tpc[c]["recv_loop"] = "slp" /\ tpc'[c]["recv_loop"] = "done"
             /\ close'[c]
      /\ \A c \in Conns :
           (tpc[c]["recv_loop"] = "slp" /\ tpc'[c]["recv_loop"] = "done")
             => close'[c]
      /\ (nmsg' = nmsg + 1 /\ message'.type = "BINARY") =>
           (tpc' = tpc /\ close' = close)
    ]_vars

\* C16, amended: the Inbound Reader ends only on an error or close event
\* of its connection, and then the closed flag is set; a received message,
\* non-binary or binary of any content, ends no reader and sets no flag.
C16_ReaderEndsOnCloseOnly ==
  [][ /\ \A c \in Conns :
           (tpc[c]["recv_loop"] = "slp" /\ tpc'[c]["recv_loop"] # "slp") =>
             /\ ws[c] = "gone"
             /\ nmsg' = nmsg
             /\ tpc'[c]["recv_loop"] = "done"
             /\ close'[c]
      /\ (message' # message /\ message'.type = "ERROR") =>
           \E c \in Conns :
             /\ tpc[c]["recv_loop"] = "slp" /\ tpc'[c]["recv_loop"] = "done"
             /\ close'[c]
      /\ (nmsg' = nmsg + 1) =>
           (tpc' = tpc /\ close' = close /\ message'.type \in {"BINARY", "TEXT"})
    ]_vars

\* a Streaming session has received a non-binary message and its reader
\* is still reading with the flag not set
C16_Witness ==
  /\ message = TextMsg
  /\ dropped >= 1
  /\ hpc[1] = "gather" /\ hpc[2] = "none"
  /\ tpc[1]["recv_loop"] = "slp" /\ ~close[1] /\ ws[1] = "open"

\* C17: once the gateway serves, no session coroutine waits on a channel:
\* whatever the queues hold, each polling loop that has slept can run its
\* iteration and the Inbound Reader of a connection that has ended can
\* run; so whatever the engine does (step, never step, die), the end of a
\* Streaming session's connection leads to the session setting its closed
\* flag and leaving Streaming.
C17_NeverBlocked ==
  /\ [](\A c \in Conns :
          /\ tpc[c]["opus_loop"] = "slp" => ENABLED ChatOpusLoop(c)
          /\ tpc[c]["send_loop"] = "slp" => ENABLED ChatSendLoop(c)
          /\ tpc[c]["another_loop"] = "slp" => ENABLED ChatAnotherLoop(c)
          /\ (tpc[c]["recv_loop"] = "slp" /\ ws[c] = "gone") =>
               ENABLED ChatRecvEnd(c, "CLOSE"))
  /\ \A c \in Conns :
       (Streaming(c) /\ ws[c] = "gone") ~> (close[c] /\ ~Streaming(c))

\* a session has pushed audio, the engine has not even taken it, nothing
\* but the handshake has come back, and the session has closed all the same
C17_Witness ==
  \E c \in Conns :
    /\ hpc[c] = "closed" /\ close[c] /\ Exited(c)
    /\ pushed[c] >= 1 /\ Len(sent[c]) = 1
    /\ mpc = "loop" /\ client_to_server # <<>>
    /\ output_queue = <<>> /\ server_to_client = <<>>

\* C18: with the engine running and the codec returning, full_warmup
\* returns, whichever of its steps the engine emits a frame for: the
\* gateway gets to serve.
C18_WarmupReturns == <>(wpc = "serve")

\* C19: the engine puts "start" on server_to_client before it takes
\* anything off client_to_server, and the gateway puts nothing on
\* client_to_server before it has taken the sentinel; so "start" is the
\* first element ever on server_to_client, it is taken once, by
\* web_server, after which the channel holds generated frames only, and
\* the frame handed to the decoder (by full_warmup or by recv_loop2) is
\* never the sentinel.
C19_StartSentinel ==
  /\ mpc = "init" =>
       /\ wpc = "start"
       /\ server_to_client = <<>>
  /\ wpc = "start" =>
       /\ client_to_server = <<>>
       /\ data = NoFrame
       /\ audio_tokens = NoFrame
       /\ mpc # "init" => server_to_client = <<StartMsg>>
  /\ wpc # "start" =>
       \A i \in 1..Len(server_to_client) : server_to_client[i].kind = "gen"
  /\ audio_tokens # StartMsg
  /\ audio_tokens.kind \in {"none", "gen"}

\* the gateway serves, and recv_loop2 has handed the decoder a frame
\* generated from a session's audio
C19_Witness ==
  /\ wpc = "serve"
  /\ audio_tokens.kind = "gen" /\ audio_tokens.src # 0
  /\ \E c \in Conns : Len(sent[c]) >= 2

\* C20: at most one session's another_loop is running, and it belongs to
\* the handler that holds the lock; a frame leaves output_queue only into
\* the Opus writer of the lock holder.
C20_SingleConsumer ==
  /\ [](Cardinality({c \in Conns :
                       tpc[c]["another_loop"] \in {"top", "slp"}}) <= 1)
  /\ [](\A c \in Conns :
          tpc[c]["another_loop"] \in {"top", "slp"} => HoldsLock(c))
  /\ [][ (output_queue # <<>> /\ output_queue' = Tail(output_queue)) =>
          \E c \in Conns :
            /\ HoldsLock(c)
            /\ opus_writer'[c] = Append(opus_writer[c], Head(output_queue))
     ]_vars

====
